---- MODULE Spec2Model ----
(***************************************************************************)
(* Model of sqlite-structure (src/index.ts): getStructure(storage) reads   *)
(* the SQLite catalog through four pragma queries and assembles a          *)
(* Structure.  The storage is a SQLite database; the catalog it holds is   *)
(* built by CREATE TABLE / CREATE INDEX statements.  Names are sequences   *)
(* of one-character strings so that LIKE and ORDER BY can be computed.     *)
(***************************************************************************)
EXTENDS Integers, Sequences, FiniteSets, TLC

VARIABLES db, declared, pc, tl, ti, il, ii, indexes, acc, log, result, prev,
          raised, failed, thrown

vars == <<db, declared, pc, tl, ti, il, ii, indexes, acc, log, result, prev,
          raised, failed, thrown>>

(***************************************************************************)
(* Bounds of the model.                                                    *)
(***************************************************************************)
MaxTables == 2
MaxIndexes == 1

(***************************************************************************)
(* Characters and their ASCII codes.                                       *)
(***************************************************************************)
Ascii ==
  [c \in {"1", "2", "3", "4", "%", "Z", "_", "a", "b", "d", "e", "h", "i", "l", "m",
          "n", "o", "p", "q", "s", "t", "u", "x"} |->
     CASE c = "1" -> 49 [] c = "2" -> 50 [] c = "3" -> 51 [] c = "4" -> 52
       [] c = "%" -> 37 [] c = "Z" -> 90 [] c = "_" -> 95
       [] c = "a" -> 97 [] c = "b" -> 98 [] c = "d" -> 100 [] c = "e" -> 101
       [] c = "h" -> 104 [] c = "i" -> 105 [] c = "l" -> 108 [] c = "m" -> 109
       [] c = "n" -> 110 [] c = "o" -> 111 [] c = "p" -> 112 [] c = "q" -> 113
       [] c = "s" -> 115 [] c = "t" -> 116 [] c = "u" -> 117 [] c = "x" -> 120]

Code(c) == Ascii[c]

\* SQLite's LIKE folds ASCII upper case to lower case.
Fold(c) == IF Code(c) >= 65 /\ Code(c) <= 90 THEN Code(c) + 32 ELSE Code(c)

\* s LIKE p : '%' matches any run of characters, '_' any one character.
RECURSIVE Like(_, _)
Like(s, p) ==
  IF p = <<>> THEN s = <<>>
  ELSE IF Head(p) = "%"
       THEN Like(s, Tail(p)) \/ (s # <<>> /\ Like(Tail(s), p))
       ELSE /\ s # <<>>
            /\ (Head(p) = "_" \/ Fold(Head(p)) = Fold(Head(s)))
            /\ Like(Tail(s), Tail(p))

\* The bytes of a name.
Bytes(name) == [i \in 1..Len(name) |-> Code(name[i])]

\* BINARY collation: memcmp of the common prefix, then the shorter first.
BinaryLess(a, b) ==
  LET m == IF Len(a) < Len(b) THEN Len(a) ELSE Len(b)
      differ == {i \in 1..m : a[i] # b[i]}
  IN IF differ = {} THEN Len(a) < Len(b)
     ELSE LET i == CHOOSE i \in differ : \A j \in differ : i <= j
          IN a[i] < b[i]

\* A sort key is the sequence of the ORDER BY terms of a row, compared term by term.
KeyLess(a, b) ==
  \E c \in 1..Len(a) : BinaryLess(a[c], b[c]) /\ \A e \in 1..(c - 1) : a[e] = b[e]

\* ORDER BY: rows in ascending order of their keys, ties in storage order.
OrderBy(rows, keys) ==
  LET n == Len(rows)
      rank == [i \in 1..n |->
                 1 + Cardinality({j \in 1..n :
                       \/ KeyLess(keys[j], keys[i])
                       \/ (~KeyLess(keys[i], keys[j]) /\ j < i)})]
  IN [k \in 1..n |-> rows[CHOOSE i \in 1..n : rank[i] = k]]

(***************************************************************************)
(* Names used by the databases of the model.                               *)
(***************************************************************************)
Main == <<"m", "a", "i", "n">>
Temp == <<"t", "e", "m", "p">>
Aux  == <<"a", "u", "x">>
ReservedPrefix == <<"s", "q", "l", "i", "t", "e", "_">>
LikeTemp == Temp
LikeReserved == ReservedPrefix \o <<"%">>
Null == "null"
NoName == <<>>

HasPrefix(s, p) == Len(s) >= Len(p) /\ SubSeq(s, 1, Len(p)) = p

Digit(n) == CASE n = 1 -> <<"1">> [] n = 2 -> <<"2">> [] n = 3 -> <<"3">>
              [] OTHER -> <<"4">>

\* The name SQLite gives the n-th index it creates for a constraint of a table.
AutoIndexName(table, n) ==
  ReservedPrefix \o <<"a", "u", "t", "o", "i", "n", "d", "e", "x", "_">>
    \o table \o <<"_">> \o Digit(n)

\* All orders in which the members of a finite set can be declared.
Perms(S) ==
  {s \in [1..Cardinality(S) -> S] : \A x \in S : \E i \in 1..Cardinality(S) : s[i] = x}

(***************************************************************************)
(* What can be declared: CREATE TABLE / VIEW / VIRTUAL TABLE statements    *)
(* (a set of columns, a set of PRIMARY KEY / UNIQUE constraints) and       *)
(* CREATE INDEX statements.  Flags are given as the catalog encodes them.  *)
(***************************************************************************)
ColA == [name |-> <<"a">>, type |-> "TEXT", notnull |-> 1, dflt_value |-> Null]
ColB == [name |-> <<"b">>, type |-> "INTEGER", notnull |-> 0, dflt_value |-> "0"]
ColC == [name |-> <<"a">>, type |-> "", notnull |-> 2, dflt_value |-> Null]

TableDecls ==
  { [schema |-> Main, name |-> <<"t">>, type |-> "table", wr |-> 0, strict |-> 1,
     columns |-> {ColA, ColB},
     constraints |-> {[origin |-> "pk", key |-> <<ColB.name, ColA.name>>],
                      [origin |-> "u", key |-> <<ColA.name>>]}],
    [schema |-> Main, name |-> <<"Z">>, type |-> "virtual", wr |-> 2, strict |-> 0,
     columns |-> {ColC}, constraints |-> {}],
    [schema |-> Aux, name |-> <<"t">>, type |-> "view", wr |-> 1, strict |-> 2,
     columns |-> {ColB}, constraints |-> {}],
    [schema |-> Temp, name |-> <<"t">>, type |-> "table", wr |-> 0, strict |-> 0,
     columns |-> {ColA}, constraints |-> {}],
    [schema |-> Main, name |-> ReservedPrefix \o <<"s", "e", "q">>, type |-> "table",
     wr |-> 0, strict |-> 0, columns |-> {ColC}, constraints |-> {}],
    [schema |-> Main, name |-> <<"s", "q", "l", "i", "t", "e", "x">>, type |-> "shadow",
     wr |-> 0, strict |-> 0, columns |-> {ColA}, constraints |-> {}] }

IndexDecls ==
  { [name |-> <<"i">>, unique |-> 2, partial |-> 1, key |-> <<ColB.name, ColA.name>>],
    [name |-> <<"h">>, unique |-> 0, partial |-> 2, key |-> <<ColA.name>>] }

(***************************************************************************)
(* The catalog SQLite keeps for a declared table: what pragma_table_list,  *)
(* pragma_table_info, pragma_index_list and pragma_index_info report.      *)
(***************************************************************************)
\* pk: the 1-based position of the column in the PRIMARY KEY, 0 if not in it.
PkOrdinal(column, constraints) ==
  IF \E c \in constraints : c.origin = "pk" /\ \E k \in 1..Len(c.key) : c.key[k] = column
  THEN LET c == CHOOSE c \in constraints : c.origin = "pk"
       IN CHOOSE k \in 1..Len(c.key) : c.key[k] = column
  ELSE 0

KeyRows(key) == [k \in 1..Len(key) |-> [seqno |-> k - 1, name |-> key[k]]]

ColumnRows(decl, colOrder) ==
  [i \in 1..Len(colOrder) |->
     [cid |-> i - 1, name |-> colOrder[i].name, type |-> colOrder[i].type,
      notnull |-> colOrder[i].notnull, dflt_value |-> colOrder[i].dflt_value,
      pk |-> PkOrdinal(colOrder[i].name, decl.constraints)]]

\* One automatic index per constraint, numbered in declaration order.
AutoIndexRows(decl, conOrder) ==
  [n \in 1..Len(conOrder) |->
     [name |-> AutoIndexName(decl.name, n), unique |-> 1,
      origin |-> conOrder[n].origin, partial |-> 0, key |-> KeyRows(conOrder[n].key)]]

IndexRow(idecl) ==
  [name |-> idecl.name, unique |-> idecl.unique, origin |-> "c",
   partial |-> idecl.partial, key |-> KeyRows(idecl.key)]

CatalogRow(decl, colOrder, conOrder, idxOrder) ==
  [schema |-> decl.schema, name |-> decl.name, type |-> decl.type,
   wr |-> decl.wr, strict |-> decl.strict,
   cols |-> ColumnRows(decl, colOrder),
   idx |-> AutoIndexRows(decl, conOrder)
             \o [n \in 1..Len(idxOrder) |-> IndexRow(idxOrder[n])]]

(***************************************************************************)
(* The four queries.  A query value carries its kind and bound parameters; *)
(* the ...Sql operators compute what SQLite answers for its text.          *)
(***************************************************************************)
pragmaTableListQuery == [kind |-> "table_list", name |-> NoName, schema |-> NoName]

pragmaTableInfoQuery(table) ==
  [kind |-> "table_info", name |-> table.name, schema |-> table.schema]

pragmaIndexListQuery(table) ==
  [kind |-> "index_list", name |-> table.name, schema |-> table.schema]

pragmaIndexInfoQuerySwapped(index) ==
  [kind |-> "index_info", name |-> index.schema, schema |-> index.name]

pragmaIndexInfoQuery(index) ==
  [kind |-> "index_info", name |-> index.name, schema |-> index.schema]

\* where "schema" not like 'temp' and "name" not like 'sqlite_%'
TableListWhereNoNameTest(row) == ~Like(row.schema, LikeTemp)

TableListWhere(row) == ~Like(row.schema, LikeTemp) /\ ~Like(row.name, LikeReserved)

\* order by "schema", "name"
TableListKey(r) == <<Bytes(r.schema), Bytes(r.name)>>

\* order by "name"
NameKey(r) == <<Bytes(r.name)>>

\* order by "seqno"
SeqnoKey(r) == <<<<r.seqno>>>>

TableListSql(d) ==
  LET kept == SelectSeq(d, TableListWhere)
      rows == OrderBy(kept, [k \in 1..Len(kept) |-> TableListKey(kept[k])])
  IN [k \in 1..Len(rows) |->
        [schema |-> rows[k].schema, name |-> rows[k].name, type |-> rows[k].type,
         wr |-> rows[k].wr, strict |-> rows[k].strict]]

\* The catalog rows of the table called name in schema, if there is one.
TablesNamed(d, name, schema) == SelectSeq(d, LAMBDA r : r.name = name /\ r.schema = schema)

TableInfoSql(d, name, schema) ==
  LET found == TablesNamed(d, name, schema)
      cols == IF found = <<>> THEN <<>> ELSE found[1].cols
      rows == OrderBy(cols, [k \in 1..Len(cols) |-> NameKey(cols[k])])
  IN [k \in 1..Len(rows) |->
        [name |-> rows[k].name, type |-> rows[k].type, notnull |-> rows[k].notnull,
         dflt_value |-> rows[k].dflt_value, pk |-> rows[k].pk]]

IndexListSql(d, name, schema) ==
  LET found == TablesNamed(d, name, schema)
      idx == IF found = <<>> THEN <<>> ELSE found[1].idx
      rows == OrderBy(idx, [k \in 1..Len(idx) |-> NameKey(idx[k])])
  IN [k \in 1..Len(rows) |->
        [name |-> rows[k].name, unique |-> rows[k].unique, origin |-> rows[k].origin,
         partial |-> rows[k].partial]]

\* The catalog rows of the index called name in schema, if there is one.
IndexesNamed(d, name, schema) ==
  LET RECURSIVE all(_)
      all(k) == IF k > Len(d) THEN <<>>
                ELSE (IF d[k].schema = schema
                      THEN SelectSeq(d[k].idx, LAMBDA r : r.name = name)
                      ELSE <<>>) \o all(k + 1)
  IN all(1)

IndexInfoSqlByName(d, name, schema) ==
  LET found == IndexesNamed(d, name, schema)
      key == IF found = <<>> THEN <<>> ELSE found[1].key
      rows == OrderBy(key, [k \in 1..Len(key) |-> NameKey(key[k])])
  IN [k \in 1..Len(rows) |-> [name |-> rows[k].name]]

IndexInfoSql(d, name, schema) ==
  LET found == IndexesNamed(d, name, schema)
      key == IF found = <<>> THEN <<>> ELSE found[1].key
      rows == OrderBy(key, [k \in 1..Len(key) |-> SeqnoKey(key[k])])
  IN [k \in 1..Len(rows) |-> [name |-> rows[k].name]]

\* The rows the database answers a query with.
Answer(d, q) ==
  CASE q.kind = "table_list" -> TableListSql(d)
    [] q.kind = "table_info" -> TableInfoSql(d, q.name, q.schema)
    [] q.kind = "index_list" -> IndexListSql(d, q.name, q.schema)
    [] q.kind = "index_info" -> IndexInfoSql(d, q.name, q.schema)

\* Every query is a select: running it leaves the database as it is.
EffectDeleting(d, q) == IF q.kind = "table_info" /\ d # <<>> THEN Tail(d) ELSE d

Effect(d, q) == d

(***************************************************************************)
(* Storage and exec.  The storage answers a query with rows or raises an   *)
(* error; exec hands on whichever it was.                                  *)
(***************************************************************************)
NoError == "no error"
Errors == {"SQLITE_BUSY", "SQLITE_IOERR"}

Storage(d, q) ==
  {[rows |-> Answer(d, q), raised |-> NoError]}
    \cup {[rows |-> <<>>, raised |-> e] : e \in Errors}

execSwallowing(d, q) ==
  {[rows |-> o.rows, raised |-> o.raised, thrown |-> NoError] : o \in Storage(d, q)}

exec(d, q) ==
  {[rows |-> o.rows, raised |-> o.raised, thrown |-> o.raised] : o \in Storage(d, q)}

(***************************************************************************)
(* The records getStructure builds.                                        *)
(***************************************************************************)
TruthyOnlyOne(v) == v = 1

\* !!v for a number v
Truthy(v) == v # 0

MakeIndex(index, columns) ==
  [name |-> index.name, unique |-> Truthy(index.unique), origin |-> index.origin,
   partial |-> Truthy(index.partial), columns |-> columns]

MakeColumnBooleanKey(column) ==
  [name |-> column.name, type |-> column.type, notNull |-> Truthy(column.notnull),
   defaultValue |-> column.dflt_value, primaryKey |-> IF column.pk # 0 THEN 1 ELSE 0]

MakeColumn(column) ==
  [name |-> column.name, type |-> column.type, notNull |-> Truthy(column.notnull),
   defaultValue |-> column.dflt_value, primaryKey |-> column.pk]

MakeTable(table, columns, indexes_) ==
  [schema |-> table.schema, name |-> table.name, type |-> table.type,
   withoutRowid |-> Truthy(table.wr), strict |-> Truthy(table.strict),
   columns |-> columns, indexes |-> indexes_]

\* getStructure on a storage that raises no error, as one expression.
GetStructure(d) ==
  LET IndexOf(table, index) ==
        MakeIndex(index,
          Answer(d, pragmaIndexInfoQuery([name |-> index.name, schema |-> table.schema])))
      TableOf(table) ==
        LET il_ == Answer(d, pragmaIndexListQuery(table))
            cl_ == Answer(d, pragmaTableInfoQuery(table))
        IN MakeTable(table,
             [c \in 1..Len(cl_) |-> MakeColumn(cl_[c])],
             [x \in 1..Len(il_) |-> IndexOf(table, il_[x])])
      tl_ == Answer(d, pragmaTableListQuery)
  IN [k \in 1..Len(tl_) |-> TableOf(tl_[k])]

(***************************************************************************)
(* State.  db is the catalog in storage (creation) order and declared the  *)
(* set of objects it was built from.  pc is the position of the running    *)
(* getStructure call; tl, ti, il, ii, indexes and acc are its locals; log  *)
(* is the sequence of queries it has issued.                               *)
(***************************************************************************)
NoResult == [ok |-> FALSE, value |-> <<>>]
NoQuery == [kind |-> "none", name |-> NoName, schema |-> NoName]
Idle == {"idle", "done", "threw"}

Init ==
  /\ db = <<>> /\ declared = {}
  /\ pc = "idle"
  /\ tl = <<>> /\ ti = 0 /\ il = <<>> /\ ii = 0 /\ indexes = <<>> /\ acc = <<>>
  /\ log = <<>>
  /\ result = NoResult /\ prev = NoResult
  /\ raised = NoError /\ failed = NoQuery /\ thrown = NoError

\* No call is running and the caller holds no earlier result.
Forgotten ==
  /\ pc' = "idle" /\ log' = <<>>
  /\ result' = NoResult /\ prev' = NoResult
  /\ raised' = NoError /\ failed' = NoQuery /\ thrown' = NoError
  /\ UNCHANGED <<tl, ti, il, ii, indexes, acc>>

NameUsed(d, name, schema) ==
  \E k \in 1..Len(d) :
    /\ d[k].schema = schema
    /\ (d[k].name = name \/ \E j \in 1..Len(d[k].idx) : d[k].idx[j].name = name)

\* CREATE TABLE / VIEW / VIRTUAL TABLE, its columns and constraints in some order.
CreateTable ==
  /\ pc \in Idle
  /\ Len(db) < MaxTables
  /\ \E decl \in TableDecls :
       /\ ~NameUsed(db, decl.name, decl.schema)
       /\ \E colOrder \in Perms(decl.columns), conOrder \in Perms(decl.constraints) :
            db' = Append(db, CatalogRow(decl, colOrder, conOrder, <<>>))
       /\ declared' = declared \cup {[tbl |-> decl, idx |-> {}]}
  /\ Forgotten

ExplicitIndexes(d) ==
  UNION {{<<k, j>> : j \in {j \in 1..Len(d[k].idx) : d[k].idx[j].origin = "c"}} :
           k \in 1..Len(d)}

\* CREATE INDEX on a table of the database.
CreateIndex ==
  /\ pc \in Idle
  /\ Cardinality(ExplicitIndexes(db)) < MaxIndexes
  /\ \E k \in 1..Len(db), idecl \in IndexDecls :
       /\ db[k].type = "table"
       /\ \A n \in 1..Len(idecl.key) :
            \E c \in 1..Len(db[k].cols) : db[k].cols[c].name = idecl.key[n]
       /\ ~NameUsed(db, idecl.name, db[k].schema)
       /\ db' = [db EXCEPT ![k].idx = Append(@, IndexRow(idecl))]
       /\ declared' = {IF x.tbl.schema = db[k].schema /\ x.tbl.name = db[k].name
                       THEN [x EXCEPT !.idx = @ \cup {idecl}] ELSE x : x \in declared}
  /\ Forgotten

(***************************************************************************)
(* getStructure, one query per step.                                       *)
(***************************************************************************)
\* The caller calls getStructure(storage); the previous result is kept aside.
CallReusingArray ==
  /\ pc \in Idle
  /\ pc' = "tableList"
  /\ prev' = IF pc = "done" THEN result ELSE prev
  /\ acc' = result.value
  /\ result' = NoResult /\ log' = <<>>
  /\ raised' = NoError /\ failed' = NoQuery /\ thrown' = NoError
  /\ UNCHANGED <<db, declared, tl, ti, il, ii, indexes>>

Call ==
  /\ pc \in Idle
  /\ pc' = "tableList"
  /\ prev' = IF pc = "done" THEN result ELSE prev
  /\ acc' = <<>>
  /\ result' = NoResult /\ log' = <<>>
  /\ raised' = NoError /\ failed' = NoQuery /\ thrown' = NoError
  /\ UNCHANGED <<db, declared, tl, ti, il, ii, indexes>>

\* The query q is issued: the part of a step every query shares.
Issue(q, o) ==
  /\ log' = Append(log, q)
  /\ db' = Effect(db, q)
  /\ raised' = o.raised
  /\ UNCHANGED <<declared, prev>>

\* exec threw: the exception leaves getStructure, whose locals are gone.
Throw(q, o) ==
  /\ pc' = "threw"
  /\ thrown' = o.thrown /\ failed' = q
  /\ result' = NoResult
  /\ tl' = <<>> /\ ti' = 0 /\ il' = <<>> /\ ii' = 0 /\ indexes' = <<>> /\ acc' = <<>>

\* The outer map has produced its array: getStructure returns it.
Return(structure) ==
  /\ pc' = "done"
  /\ result' = [ok |-> TRUE, value |-> structure]
  /\ tl' = <<>> /\ ti' = 0 /\ il' = <<>> /\ ii' = 0 /\ indexes' = <<>> /\ acc' = <<>>
  /\ UNCHANGED <<thrown, failed>>

\* exec(storage, pragmaTableListQuery)
ExecTableList ==
  /\ pc = "tableList"
  /\ \E o \in exec(db, pragmaTableListQuery) :
       /\ Issue(pragmaTableListQuery, o)
       /\ IF o.thrown # NoError THEN Throw(pragmaTableListQuery, o)
          ELSE IF o.rows = <<>> THEN Return(acc)
          ELSE /\ tl' = o.rows /\ ti' = 1 /\ pc' = "indexList"
               /\ UNCHANGED <<il, ii, indexes, acc, result, thrown, failed>>

\* exec(storage, pragmaIndexListQuery(table))
ExecIndexList ==
  /\ pc = "indexList"
  /\ LET q == pragmaIndexListQuery(tl[ti]) IN
     \E o \in exec(db, q) :
       /\ Issue(q, o)
       /\ IF o.thrown # NoError THEN Throw(q, o)
          ELSE /\ il' = o.rows /\ ii' = 1 /\ indexes' = <<>>
               /\ pc' = IF o.rows = <<>> THEN "tableInfo" ELSE "indexInfo"
               /\ UNCHANGED <<tl, ti, acc, result, thrown, failed>>

\* exec(storage, pragmaIndexInfoQuery({ name: index.name, schema }))
ExecIndexInfo ==
  /\ pc = "indexInfo"
  /\ LET index == il[ii]
         q == pragmaIndexInfoQuery([name |-> index.name, schema |-> tl[ti].schema])
     IN \E o \in exec(db, q) :
          /\ Issue(q, o)
          /\ IF o.thrown # NoError THEN Throw(q, o)
             ELSE /\ indexes' = Append(indexes, MakeIndex(index, o.rows))
                  /\ ii' = ii + 1
                  /\ pc' = IF ii = Len(il) THEN "tableInfo" ELSE "indexInfo"
                  /\ UNCHANGED <<tl, ti, il, acc, result, thrown, failed>>

\* exec(storage, pragmaTableInfoQuery(table)), and the Table is built.
ExecTableInfo ==
  /\ pc = "tableInfo"
  /\ LET table == tl[ti]
         q == pragmaTableInfoQuery(table)
     IN \E o \in exec(db, q) :
          /\ Issue(q, o)
          /\ IF o.thrown # NoError THEN Throw(q, o)
             ELSE LET columns == [c \in 1..Len(o.rows) |-> MakeColumn(o.rows[c])]
                      built == Append(acc, MakeTable(table, columns, indexes))
                  IN IF ti = Len(tl) THEN Return(built)
                     ELSE /\ acc' = built /\ ti' = ti + 1 /\ pc' = "indexList"
                          /\ il' = <<>> /\ ii' = 0 /\ indexes' = <<>>
                          /\ UNCHANGED <<tl, result, thrown, failed>>

Next ==
  \/ CreateTable
  \/ CreateIndex
  \/ Call
  \/ ExecTableList
  \/ ExecIndexList
  \/ ExecIndexInfo
  \/ ExecTableInfo

Spec == Init /\ [][Next]_vars

(***************************************************************************)
(* Vocabulary of the properties.                                           *)
(***************************************************************************)
Tables == result.value

\* The catalog row of the table a Table of the result describes.
CatalogTable(t) ==
  db[CHOOSE k \in 1..Len(db) : db[k].schema = t.schema /\ db[k].name = t.name]

CatalogColumn(t, c) ==
  LET cols == CatalogTable(t).cols
  IN cols[CHOOSE k \in 1..Len(cols) : cols[k].name = c.name]

CatalogIndex(t, x) ==
  LET idx == CatalogTable(t).idx
  IN idx[CHOOSE k \in 1..Len(idx) : idx[k].name = x.name]

Reserved(name) == HasPrefix(name, ReservedPrefix)

\* Every catalog the declared objects can be built into, in any order.
RowsOf(x) ==
  {CatalogRow(x.tbl, co, cn, io) :
     co \in Perms(x.tbl.columns), cn \in Perms(x.tbl.constraints), io \in Perms(x.idx)}

RECURSIVE Builds(_)
Builds(S) ==
  IF S = {} THEN {<<>>}
  ELSE UNION {{Append(d, row) : d \in Builds(S \ {x}), row \in RowsOf(x)} : x \in S}

\* The table of the database that owns the index an index_info query names.
OwnsIndex(k, q) ==
  /\ db[k].schema = q.schema
  /\ \E j \in 1..Len(db[k].idx) : db[k].idx[j].name = q.name

AboutTable(k, q) == q.name = db[k].name /\ q.schema = db[k].schema

(***************************************************************************)
(* C1  Determinism: a call that returns after an earlier call returned on  *)
(* the same, unchanged database returns a deeply-equal Structure.          *)
(***************************************************************************)
C1_Determinism == (pc = "done" /\ prev.ok) => result = prev

C1_Witness ==
  /\ pc = "done" /\ prev.ok
  /\ Len(Tables) = 2
  /\ \E k \in 1..Len(Tables) : Len(Tables[k].indexes) >= 2

(***************************************************************************)
(* C2  Order invariance: whatever order the declared tables, columns,      *)
(* constraints and indexes are built in, getStructure returns the same     *)
(* Structure as it returned for the database as it was built.              *)
(***************************************************************************)
C2_OrderInvariance ==
  pc = "done" => \A d2 \in Builds(declared) : GetStructure(d2) = Tables

(***************************************************************************)
(* C3  Exclusion: no Table of the result is in the temp schema or has a    *)
(* name that begins with sqlite_.                                          *)
(***************************************************************************)
C3_Exclusion ==
  pc = "done" =>
    \A k \in 1..Len(Tables) : Tables[k].schema # Temp /\ ~Reserved(Tables[k].name)

C3_Witness ==
  /\ pc = "done" /\ Tables # <<>>
  /\ \E k \in 1..Len(db) : db[k].schema = Temp \/ Reserved(db[k].name)

(***************************************************************************)
(* C4  Completeness: every table-like object outside the temp schema whose *)
(* name does not begin with sqlite_ appears exactly once in the result.    *)
(***************************************************************************)
C4_Completeness ==
  pc = "done" =>
    \A k \in 1..Len(db) :
      (db[k].schema # Temp /\ ~Reserved(db[k].name)) =>
        Cardinality({j \in 1..Len(Tables) :
                       Tables[j].schema = db[k].schema /\ Tables[j].name = db[k].name}) = 1

(***************************************************************************)
(* C5  A failing query aborts the call: once the storage has raised an     *)
(* error the call has thrown exactly that error, there is no Structure,    *)
(* and the failing query is the last one issued and was issued once.       *)
(***************************************************************************)
C5_FailureAborts ==
  raised # NoError =>
    /\ pc = "threw"
    /\ result = NoResult
    /\ thrown = raised
    /\ log # <<>> /\ log[Len(log)] = failed
    /\ Cardinality({i \in 1..Len(log) : log[i] = failed}) = 1

C5_Witness ==
  /\ pc = "threw" /\ raised = "SQLITE_IOERR"
  /\ failed.kind = "table_info" /\ Len(log) >= 6

(***************************************************************************)
(* C6  Flag coercion: each boolean flag of the result is TRUE exactly when *)
(* the catalog value it comes from is not 0.                               *)
(***************************************************************************)
C6_FlagCoercion ==
  pc = "done" =>
    \A k \in 1..Len(Tables) :
      LET t == Tables[k] IN
      /\ t.withoutRowid = (CatalogTable(t).wr # 0)
      /\ t.strict = (CatalogTable(t).strict # 0)
      /\ \A c \in 1..Len(t.columns) :
           t.columns[c].notNull = (CatalogColumn(t, t.columns[c]).notnull # 0)
      /\ \A x \in 1..Len(t.indexes) :
           /\ t.indexes[x].unique = (CatalogIndex(t, t.indexes[x]).unique # 0)
           /\ t.indexes[x].partial = (CatalogIndex(t, t.indexes[x]).partial # 0)

C6_Witness ==
  /\ pc = "done"
  /\ \E k \in 1..Len(Tables) :
       /\ CatalogTable(Tables[k]).wr = 2 /\ Tables[k].withoutRowid
       /\ \E c \in 1..Len(Tables[k].columns) :
            CatalogColumn(Tables[k], Tables[k].columns[c]).notnull = 2
  /\ \E k \in 1..Len(Tables) : \E x \in 1..Len(Tables[k].indexes) :
       /\ CatalogIndex(Tables[k], Tables[k].indexes[x]).unique = 2
       /\ Tables[k].indexes[x].unique /\ Tables[k].indexes[x].partial

(***************************************************************************)
(* C7  Index column order: the columns of every Index are the names of the *)
(* index's key in seqno order, none dropped, duplicated or re-sorted.      *)
(***************************************************************************)
C7_IndexColumnOrder ==
  pc = "done" =>
    \A k \in 1..Len(Tables) : \A x \in 1..Len(Tables[k].indexes) :
      LET index == Tables[k].indexes[x]
          key == CatalogIndex(Tables[k], index).key
      IN /\ Len(index.columns) = Len(key)
         /\ \A n \in 1..Len(key) : index.columns[key[n].seqno + 1].name = key[n].name

C7_Witness ==
  /\ pc = "done"
  /\ \E k \in 1..Len(Tables) : \E x \in 1..Len(Tables[k].indexes) :
       /\ Tables[k].indexes[x].origin = "c"
       /\ Tables[k].indexes[x].columns = <<[name |-> <<"b">>], [name |-> <<"a">>]>>

(***************************************************************************)
(* C8  Primary-key ordinal: primaryKey is the catalog's pk, an integer: 0  *)
(* for a column outside the primary key, and the 1-based position in the   *)
(* declared PRIMARY KEY for a column in it.                                *)
(***************************************************************************)
C8_PrimaryKeyOrdinal ==
  pc = "done" =>
    \A k \in 1..Len(Tables) : \A c \in 1..Len(Tables[k].columns) :
      LET t == Tables[k]
          column == t.columns[c]
          decl == (CHOOSE x \in declared :
                     x.tbl.schema = t.schema /\ x.tbl.name = t.name).tbl
          pks == {con \in decl.constraints : con.origin = "pk"}
      IN /\ column.primaryKey = CatalogColumn(t, column).pk
         /\ \A con \in pks : \A n \in 1..Len(con.key) :
              con.key[n] = column.name => column.primaryKey = n
         /\ (\A con \in pks : \A n \in 1..Len(con.key) : con.key[n] # column.name)
              => column.primaryKey = 0

C8_Witness ==
  /\ pc = "done"
  /\ \E k \in 1..Len(Tables) :
       /\ Len(Tables[k].columns) = 2
       /\ Tables[k].columns[1].name = <<"a">> /\ Tables[k].columns[1].primaryKey = 2
       /\ Tables[k].columns[2].name = <<"b">> /\ Tables[k].columns[2].primaryKey = 1
  /\ \E k \in 1..Len(Tables) : Tables[k].columns[1].primaryKey = 0

(***************************************************************************)
(* C9  No side effects, no state across calls: no step of a call changes   *)
(* the database, and a call that returns, whatever calls came before it,   *)
(* returns the Structure of the database as it is.                         *)
(***************************************************************************)
C9_NoSideEffects ==
  /\ [][(pc \notin Idle \/ pc' = "tableList") => db' = db]_vars
  /\ [](pc = "done" => result = [ok |-> TRUE, value |-> GetStructure(db)])

C9_Witness ==
  /\ pc = "done" /\ prev.ok /\ Tables # <<>>
  /\ ExplicitIndexes(db) # {}
  /\ Len(db) = 2

(***************************************************************************)
(* C10 as claimed: for each table, its column-list query and its           *)
(* index-list query are both issued before any index-column query for an   *)
(* index of that table.                                                    *)
(***************************************************************************)
C10_ColumnsBeforeIndexColumns ==
  \A i \in 1..Len(log) : \A k \in 1..Len(db) :
    (log[i].kind = "index_info" /\ OwnsIndex(k, log[i])) =>
      \A j \in 1..Len(log) :
        (log[j].kind \in {"table_info", "index_list"} /\ AboutTable(k, log[j])) => j < i

(***************************************************************************)
(* C10 amended: the table list query is issued first and once; every       *)
(* per-table query names a table the table list returned; every            *)
(* index-column query names an index returned by an earlier index-list     *)
(* query; and for each table the index-list query comes before its         *)
(* index-column queries, which come before its column-list query.          *)
(***************************************************************************)
C10_Sequencing ==
  LET listed == TableListSql(db)
      \* the index names the index-list query log[j] returned
      returned(j) ==
        LET rows == IndexListSql(db, log[j].name, log[j].schema)
        IN {rows[n].name : n \in 1..Len(rows)}
  IN
  /\ log # <<>> => log[1] = pragmaTableListQuery
  /\ \A i \in 2..Len(log) :
       /\ log[i].kind # "table_list"
       /\ log[i].kind \in {"table_info", "index_list"} =>
            \E n \in 1..Len(listed) :
              listed[n].name = log[i].name /\ listed[n].schema = log[i].schema
       /\ log[i].kind = "index_info" =>
            \E j \in 1..(i - 1) :
              /\ log[j].kind = "index_list" /\ log[j].schema = log[i].schema
              /\ log[i].name \in returned(j)
  /\ \A i \in 1..Len(log) : \A k \in 1..Len(db) :
       (log[i].kind = "index_info" /\ OwnsIndex(k, log[i])) =>
         \A j \in 1..Len(log) :
           /\ (log[j].kind = "index_list" /\ AboutTable(k, log[j])) => j < i
           /\ (log[j].kind = "table_info" /\ AboutTable(k, log[j])) => i < j

C10_Witness ==
  /\ pc = "done" /\ Len(log) >= 8
  /\ \E i, j \in 1..Len(log) :
       i < j /\ log[i].kind = "index_info" /\ log[j].kind = "table_info"

====
